---- MODULE Spec2Model ----
(***************************************************************************)
(* A model of calculator.py: the safe expression evaluator (safe_eval,     *)
(* _eval_ast) and the Calculator's four handlers (insert, backspace,       *)
(* clear, calculate).                                                      *)
(*                                                                         *)
(* Text is a sequence of one-character strings.  ast.parse is modelled by  *)
(* a tokenizer and a parser for the part of Python's expression grammar    *)
(* that the characters of Alphabet can spell.                              *)
(*                                                                         *)
(* Numbers.  A value is a record [tag, mag, num, den]:                     *)
(*   tag  "int" | "float" | "complex"       the Python type                *)
(*   mag  "exact"   the value is num/den, |num| <= Lim, den <= Lim; a float *)
(*                  is exact only when den is a power of two, so that the  *)
(*                  double holds num/den itself and arithmetic on it is    *)
(*                  the arithmetic of the rationals;                       *)
(*        "big"     an int beyond Lim of sign num (Python ints are         *)
(*                  unbounded, so such a value exists, the model just does *)
(*                  not carry its digits);                                 *)
(*        "approx"  a float that is the double nearest to num/den, which   *)
(*                  is not a dyadic rational (nonzero, not integral), or a *)
(*                  complex number (num, den not used);                    *)
(*        "lost"    a value the model cannot follow.                       *)
(* An evaluation that needs arithmetic on a value that is not exact ends   *)
(* with exc = "untracked": the model says nothing about its outcome.       *)
(***************************************************************************)
EXTENDS Integers, Sequences, FiniteSets, TLC

\* ------------------------------------------------------------------ bounds
\* Longest expression the handlers build.
MaxLen == 4
\* Largest numerator and denominator the model carries exactly.
Lim == 30000
\* Largest operand of the grouping cases.
MaxOperand == 2

\* --------------------------------------------------------------- characters
Digits == {"0", "1", "2", "3", "4", "5", "6", "7", "8", "9"}
DigitSeq == <<"0", "1", "2", "3", "4", "5", "6", "7", "8", "9">>
HexSeq == <<"0", "1", "2", "3", "4", "5", "6", "7", "8", "9", "a", "b", "c", "d", "e", "f">>
HexDigits == {HexSeq[i] : i \in 1..16}
\* The letters the model's inputs use: "e" (exponent marker, hex digit) and
\* "x" (hex prefix); with "_" they also spell names.
Letters == {"e", "x"}
IdStart == Letters \cup {"_"}
IdChars == IdStart \cup Digits
Whitespace == {" "}
Alphabet == Digits \cup IdStart \cup Whitespace \cup {".", "+", "-", "*", "/", "%", "(", ")", "×", "÷"}

DigitVal(c) == CHOOSE i \in 0..9 : DigitSeq[i + 1] = c
HexVal(c) == CHOOSE i \in 0..15 : HexSeq[i + 1] = c

\* ------------------------------------------------------------------ values
NoVal == [tag |-> "none", mag |-> "none", num |-> 0, den |-> 1]
Lost(t) == [tag |-> t, mag |-> "lost", num |-> 0, den |-> 1]
ComplexV == [tag |-> "complex", mag |-> "approx", num |-> 0, den |-> 1]

Abs(n) == IF n < 0 THEN -n ELSE n
Sign(n) == IF n < 0 THEN -1 ELSE IF n = 0 THEN 0 ELSE 1

RECURSIVE Gcd(_, _)
Gcd(a, b) == IF b = 0 THEN a ELSE Gcd(b, a % b)

RECURSIVE IsPow2(_)
IsPow2(d) == d = 1 \/ (d > 1 /\ d % 2 = 0 /\ IsPow2(d \div 2))

\* floor(a / b) for b # 0
FloorQuot(a, b) == IF b > 0 THEN a \div b ELSE (-a) \div (-b)

\* A Python int of value n (|n| small enough for the model to compute).
IntV(n) ==
    IF Abs(n) <= Lim THEN [tag |-> "int", mag |-> "exact", num |-> n, den |-> 1]
    ELSE [tag |-> "int", mag |-> "big", num |-> Sign(n), den |-> 1]

\* The Python float nearest to n/d (d > 0).
FloatV(n, d) ==
    LET g == Gcd(Abs(n), d)
        rn == n \div g
        rd == d \div g
    IN  IF n = 0 THEN [tag |-> "float", mag |-> "exact", num |-> 0, den |-> 1]
        ELSE IF Abs(rn) > Lim \/ rd > Lim THEN Lost("float")
        ELSE IF IsPow2(rd) THEN [tag |-> "float", mag |-> "exact", num |-> rn, den |-> rd]
        ELSE [tag |-> "float", mag |-> "approx", num |-> rn, den |-> rd]

IsExact(v) == v.mag = "exact"
\* v == 0 and abs(v) > c, for the values whose magnitude the model knows
KnowsMagnitude(v) == v.tag \in {"int", "float"} /\ v.mag \in {"exact", "big", "approx"}
IsZero(v) == v.mag = "exact" /\ v.num = 0
AbsExceeds(v, c) == IF v.mag = "big" THEN TRUE ELSE Abs(v.num) > c * v.den


\* ------------------------------------------------ the operator module's functions
\* What a call of an operator function does: exc = "none" and the value
\* returned, or the exception raised; exc = "untracked" when the operands are
\* beyond what the model follows.
Returns(v) == [exc |-> "none", val |-> v]
Raises(e) == [exc |-> e, val |-> NoVal]
Untracked == [exc |-> "untracked", val |-> NoVal]

BothInt(l, r) == l.tag = "int" /\ r.tag = "int"
BothExact(l, r) == IsExact(l) /\ IsExact(r)
\* ints that may be big: +, -, *, // and % on them give an int and cannot fail
BothKnownInt(l, r) == BothInt(l, r) /\ l.mag \in {"exact", "big"} /\ r.mag \in {"exact", "big"}

\* b^e for naturals b >= 2, e >= 0; stops multiplying once the product passes Lim
RECURSIVE PowAcc(_, _, _)
PowAcc(b, e, acc) == IF e = 0 \/ acc > Lim THEN acc ELSE PowAcc(b, e - 1, acc * b)
NatPow(b, e) == IF b = 0 THEN (IF e = 0 THEN 1 ELSE 0) ELSE IF b = 1 THEN 1 ELSE PowAcc(b, e, 1)

\* the sign of b^e for an integer exponent e
PowSign(b, e) == IF b < 0 /\ e % 2 = 1 THEN -1 ELSE 1

\* a % b of Python ints (sign of the divisor), b # 0
IntMod(a, b) == a - b * FloorQuot(a, b)

op_add(l, r) ==
    IF BothExact(l, r) THEN
        IF BothInt(l, r) THEN Returns(IntV(l.num + r.num))
        ELSE Returns(FloatV(l.num * r.den + r.num * l.den, l.den * r.den))
    ELSE IF BothKnownInt(l, r) THEN Returns(Lost("int"))
    ELSE Untracked

op_sub(l, r) ==
    IF BothExact(l, r) THEN
        IF BothInt(l, r) THEN Returns(IntV(l.num - r.num))
        ELSE Returns(FloatV(l.num * r.den - r.num * l.den, l.den * r.den))
    ELSE IF BothKnownInt(l, r) THEN Returns(Lost("int"))
    ELSE Untracked

op_mul(l, r) ==
    IF BothExact(l, r) THEN
        IF BothInt(l, r) THEN Returns(IntV(l.num * r.num))
        ELSE Returns(FloatV(l.num * r.num, l.den * r.den))
    ELSE IF BothKnownInt(l, r) THEN Returns(Lost("int"))
    ELSE Untracked

op_truediv(l, r) ==
    IF IsZero(r) THEN Raises("ZeroDivisionError")
    ELSE IF BothExact(l, r) THEN
        Returns(FloatV(l.num * r.den * Sign(r.num), l.den * Abs(r.num)))
    ELSE Untracked

op_floordiv(l, r) ==
    IF IsZero(r) THEN Raises("ZeroDivisionError")
    ELSE IF BothExact(l, r) THEN
        IF BothInt(l, r) THEN Returns(IntV(FloorQuot(l.num, r.num)))
        ELSE Returns(FloatV(FloorQuot(l.num * r.den, r.num * l.den), 1))
    ELSE IF BothKnownInt(l, r) THEN Returns(Lost("int"))
    ELSE Untracked

op_mod(l, r) ==
    IF IsZero(r) THEN Raises("ZeroDivisionError")
    ELSE IF BothExact(l, r) THEN
        IF BothInt(l, r) THEN Returns(IntV(IntMod(l.num, r.num)))
        ELSE Returns(FloatV(IntMod(l.num * r.den, r.num * l.den), l.den * r.den))
    ELSE IF BothKnownInt(l, r) THEN Returns(Lost("int"))
    ELSE Untracked

\* float ** float (float_pow), both exact; an int operand is converted first
float_pow(l, r) ==
    IF r.num = 0 THEN Returns(FloatV(1, 1))
    ELSE IF l.num = 0 THEN
        IF r.num < 0 THEN Raises("ZeroDivisionError") ELSE Returns(FloatV(0, 1))
    ELSE IF r.den # 1 THEN
        \* a fractional exponent
        IF l.num < 0 THEN Returns(ComplexV)
        ELSE IF l.num = 1 /\ l.den = 1 THEN Returns(FloatV(1, 1))
        ELSE Untracked
    ELSE
        LET e == Abs(r.num)
            pn == NatPow(Abs(l.num), e)
            pd == NatPow(l.den, e)
            s == PowSign(l.num, e)
        IN  IF pn > Lim \/ pd > Lim THEN Untracked
            ELSE IF r.num > 0 THEN Returns(FloatV(s * pn, pd))
            ELSE Returns(FloatV(s * pd, pn))

op_pow(l, r) ==
    IF BothExact(l, r) THEN
        IF BothInt(l, r) /\ r.num >= 0 THEN
            Returns(IntV(PowSign(l.num, r.num) * NatPow(Abs(l.num), r.num)))
        ELSE float_pow(l, r)
    ELSE IF BothKnownInt(l, r) /\ IsExact(r) /\ r.num >= 0 THEN Returns(Lost("int"))
    ELSE Untracked

op_pos(x) == Returns(x)

op_neg(x) ==
    IF x.mag \in {"exact", "big", "approx"} /\ x.tag # "complex"
    THEN Returns([x EXCEPT !.num = -x.num])
    ELSE Returns(x)

\* _ALLOWED_BIN_OPS and _ALLOWED_UNARY_OPS: node operator -> function
BinOps == {"Add", "Sub", "Mult", "Div", "FloorDiv", "Mod", "Pow"}
UnaryOps == {"UAdd", "USub"}

ALLOWED_BIN_OPS(op, l, r) ==
    CASE op = "Add" -> op_add(l, r)
      [] op = "Sub" -> op_sub(l, r)
      [] op = "Mult" -> op_mul(l, r)
      [] op = "Div" -> op_truediv(l, r)
      [] op = "FloorDiv" -> op_floordiv(l, r)
      [] op = "Mod" -> op_mod(l, r)
      [] op = "Pow" -> op_pow(l, r)

ALLOWED_UNARY_OPS(op, x) ==
    CASE op = "UAdd" -> op_pos(x)
      [] op = "USub" -> op_neg(x)

\* --------------------------------------------------- ast.parse: the tokenizer
\* The character at position i, "" past the end.
At(s, i) == IF i >= 1 /\ i <= Len(s) THEN s[i] ELSE ""

RECURSIVE SkipWhile(_, _, _)
\* the first position >= i whose character is not in set
SkipWhile(s, i, set) == IF At(s, i) \in set THEN SkipWhile(s, i + 1, set) ELSE i

ScanOk(p) == [ok |-> TRUE, end |-> p]
ScanErr == [ok |-> FALSE, end |-> 0]

RECURSIVE tok_decimal_tail(_, _)
\* digits with single underscores between them, starting at the digit s[i]
tok_decimal_tail(s, i) ==
    LET j == SkipWhile(s, i, Digits)
    IN  IF At(s, j) # "_" THEN ScanOk(j)
        ELSE IF At(s, j + 1) \in Digits THEN tok_decimal_tail(s, j + 1)
        ELSE ScanErr

RECURSIVE HexTail(_, _)
\* the digits of a hexadecimal literal, i the position after "0x"
HexTail(s, i) ==
    LET p == IF At(s, i) = "_" THEN i + 1 ELSE i
    IN  IF At(s, p) \notin HexDigits THEN ScanErr
        ELSE LET j == SkipWhile(s, p, HexDigits)
             IN  IF At(s, j) = "_" THEN HexTail(s, j) ELSE ScanOk(j)

RECURSIVE ZerosTail(_, _)
\* the zeros (and underscores) after a leading "0"
ZerosTail(s, i) ==
    IF At(s, i) = "_" THEN
        IF At(s, i + 1) \notin Digits THEN ScanErr
        ELSE IF At(s, i + 1) # "0" THEN ScanOk(i + 1)
        ELSE ZerosTail(s, i + 2)
    ELSE IF At(s, i) # "0" THEN ScanOk(i)
    ELSE ZerosTail(s, i + 1)

\* verify_end_of_number: a name character right after a literal is an error
verify_end_of_number(s, p) == IF At(s, p) \in IdChars THEN ScanErr ELSE ScanOk(p)

\* the exponent of a float, p the position of a possible "e"
ScanExponent(s, p) ==
    IF At(s, p) # "e" THEN verify_end_of_number(s, p)
    ELSE LET q == IF At(s, p + 1) \in {"+", "-"} THEN p + 2 ELSE p + 1
         IN  IF At(s, q) \notin Digits THEN ScanErr
             ELSE LET t == tok_decimal_tail(s, q)
                  IN  IF t.ok THEN verify_end_of_number(s, t.end) ELSE ScanErr

\* the fraction of a float, p the position after the "."
ScanFraction(s, p) ==
    IF At(s, p) \in Digits
    THEN LET t == tok_decimal_tail(s, p)
         IN  IF t.ok THEN ScanExponent(s, t.end) ELSE ScanErr
    ELSE ScanExponent(s, p)

\* after the integer part of a decimal literal
ScanAfterInt(s, p) ==
    IF At(s, p) = "." THEN ScanFraction(s, p + 1) ELSE ScanExponent(s, p)

\* a literal starting at the digit s[i], or at a "." that a digit follows
ScanNumber(s, i) ==
    IF s[i] = "." THEN ScanFraction(s, i + 1)
    ELSE IF s[i] = "0" THEN
        IF At(s, i + 1) = "x" THEN
            LET h == HexTail(s, i + 2)
            IN  IF h.ok THEN verify_end_of_number(s, h.end) ELSE ScanErr
        ELSE
            LET z == ZerosTail(s, i + 1)
            IN  IF ~z.ok THEN ScanErr
                ELSE IF At(s, z.end) \in Digits THEN
                    \* digits after leading zeros: only a float may have them
                    LET t == tok_decimal_tail(s, z.end)
                    IN  IF ~t.ok THEN ScanErr
                        ELSE IF At(s, t.end) \in {".", "e"} THEN ScanAfterInt(s, t.end)
                        ELSE ScanErr
                ELSE ScanAfterInt(s, z.end)
    ELSE
        LET t == tok_decimal_tail(s, i)
        IN  IF t.ok THEN ScanAfterInt(s, t.end) ELSE ScanErr

\* the first position of character c in text, 0 when absent
RECURSIVE IndexFrom(_, _, _)
IndexFrom(text, c, i) ==
    IF i > Len(text) THEN 0 ELSE IF text[i] = c THEN i ELSE IndexFrom(text, c, i + 1)
IndexOf(text, c) == IndexFrom(text, c, 1)

\* the number a digit string spells; it stops growing once it passes Lim
RECURSIVE DecAcc(_, _, _)
DecAcc(ds, i, acc) ==
    IF i > Len(ds) \/ acc > Lim THEN acc ELSE DecAcc(ds, i + 1, acc * 10 + DigitVal(ds[i]))
RECURSIVE HexAcc(_, _, _)
HexAcc(ds, i, acc) ==
    IF i > Len(ds) \/ acc > Lim THEN acc ELSE HexAcc(ds, i + 1, acc * 16 + HexVal(ds[i]))
\* 10^n, or a number beyond Lim when 10^n is
RECURSIVE P10(_, _)
P10(n, acc) == IF n = 0 \/ acc > Lim THEN acc ELSE P10(n - 1, acc * 10)

\* the value of a float literal: mantissa digits, digits after the point,
\* signed exponent
FloatLiteral(mant, k, e) ==
    LET m == DecAcc(mant, 1, 0)
        sc == e - k
        p == P10(Abs(sc), 1)
    IN  IF m = 0 THEN FloatV(0, 1)
        ELSE IF m > Lim \/ p > Lim THEN Lost("float")
        ELSE IF sc >= 0 THEN FloatV(m * p, 1)
        ELSE FloatV(m, p)

\* the constant a NUMBER token denotes
NumberValue(lit) ==
    LET text == SelectSeq(lit, LAMBDA c : c # "_")
        pe == IndexOf(text, "e")
        pd == IndexOf(text, ".")
    IN  IF At(text, 2) = "x" THEN IntV(HexAcc(text, 3, 0))
        ELSE IF pe = 0 /\ pd = 0 THEN IntV(DecAcc(text, 1, 0))
        ELSE
            LET body == IF pe = 0 THEN text ELSE SubSeq(text, 1, pe - 1)
                ip == IF pd = 0 THEN body ELSE SubSeq(body, 1, pd - 1)
                fp == IF pd = 0 THEN <<>> ELSE SubSeq(body, pd + 1, Len(body))
                neg == pe # 0 /\ At(text, pe + 1) = "-"
                signed == pe # 0 /\ At(text, pe + 1) \in {"+", "-"}
                ed == IF pe = 0 THEN <<>>
                      ELSE SubSeq(text, IF signed THEN pe + 2 ELSE pe + 1, Len(text))
                ev == DecAcc(ed, 1, 0)
            IN  FloatLiteral(ip \o fp, Len(fp), IF neg THEN -ev ELSE ev)

Tok(type, str, val) == [type |-> type, str |-> str, val |-> val]
OpTok(str) == Tok("OP", str, NoVal)
EndTok == Tok("END", "", NoVal)
SingleOps == {"+", "-", "%", "(", ")"}

RECURSIVE Tokenize(_, _, _)
\* the literal scanned from position i (sc) becomes a NUMBER token
NumberToken(s, i, acc, sc) ==
    IF ~sc.ok THEN [ok |-> FALSE, toks |-> <<>>]
    ELSE Tokenize(s, sc.end, Append(acc, Tok("NUMBER", "", NumberValue(SubSeq(s, i, sc.end - 1)))))
\* the tokens of s from position i on, after the tokens acc
Tokenize(s, i, acc) ==
    LET c == At(s, i)
        n == At(s, i + 1)
    IN  IF c = "" THEN [ok |-> TRUE, toks |-> Append(acc, EndTok)]
        ELSE IF c \in Whitespace THEN Tokenize(s, i + 1, acc)
        ELSE IF c \in IdStart THEN
            Tokenize(s, SkipWhile(s, i, IdChars), Append(acc, Tok("NAME", "", NoVal)))
        ELSE IF c \in Digits \/ (c = "." /\ n \in Digits) THEN
            NumberToken(s, i, acc, ScanNumber(s, i))
        ELSE IF c = "." THEN
            IF n = "." /\ At(s, i + 2) = "."
            THEN Tokenize(s, i + 3, Append(acc, Tok("ELLIPSIS", "", NoVal)))
            ELSE Tokenize(s, i + 1, Append(acc, OpTok(".")))
        ELSE IF c \in {"*", "/"} THEN
            IF n = c THEN Tokenize(s, i + 2, Append(acc, OpTok(IF c = "*" THEN "**" ELSE "//")))
            ELSE Tokenize(s, i + 1, Append(acc, OpTok(c)))
        ELSE IF c \in SingleOps THEN Tokenize(s, i + 1, Append(acc, OpTok(c)))
        ELSE [ok |-> FALSE, toks |-> <<>>]

\* ------------------------------------------------------ ast.parse: the parser
\* The nodes of the tree.  Name, Attribute, Call, Tuple and the Ellipsis
\* constant are all "Other": _eval_ast never looks inside them.
Constant(v) == [type |-> "Constant", value |-> v]
UnaryOp(op, x) == [type |-> "UnaryOp", op |-> op, operand |-> x]
BinOp(l, op, r) == [type |-> "BinOp", op |-> op, left |-> l, right |-> r]
Other(kind) == [type |-> "Other", kind |-> kind]

Parsed(node, pos) == [ok |-> TRUE, node |-> node, pos |-> pos]
ParseErr == [ok |-> FALSE, node |-> Other("none"), pos |-> 0]

IsOp(toks, i, strs) == toks[i].type = "OP" /\ toks[i].str \in strs

SumOp(str) == IF str = "+" THEN "Add" ELSE "Sub"
TermOp(str) ==
    CASE str = "*" -> "Mult"
      [] str = "/" -> "Div"
      [] str = "//" -> "FloorDiv"
      [] str = "%" -> "Mod"
SignOp(str) == IF str = "+" THEN "UAdd" ELSE "USub"

RECURSIVE ParseSum(_, _), ParseSumLoop(_, _, _, _), ParseTerm(_, _), ParseTermLoop(_, _, _, _)
RECURSIVE ParseFactor(_, _), ParsePower(_, _), ParsePrimary(_, _), ParseTrailers(_, _, _)
RECURSIVE ParseAtom(_, _), ParseCallArgs(_, _)

\* the operand t joins the tree acc built so far under op ("" at the start)
Joined(acc, op, t) == IF op = "" THEN t.node ELSE BinOp(acc, op, t.node)

\* sum: sum ('+' | '-') term | term
SumContinue(toks, node, i) ==
    IF IsOp(toks, i, {"+", "-"}) THEN ParseSumLoop(toks, node, SumOp(toks[i].str), i + 1)
    ELSE Parsed(node, i)
SumCombine(toks, acc, op, t) ==
    IF t.ok THEN SumContinue(toks, Joined(acc, op, t), t.pos) ELSE ParseErr
ParseSumLoop(toks, acc, op, i) == SumCombine(toks, acc, op, ParseTerm(toks, i))
ParseSum(toks, i) == ParseSumLoop(toks, Other("none"), "", i)

\* term: term ('*' | '/' | '//' | '%') factor | factor
TermContinue(toks, node, i) ==
    IF IsOp(toks, i, {"*", "/", "//", "%"})
    THEN ParseTermLoop(toks, node, TermOp(toks[i].str), i + 1)
    ELSE Parsed(node, i)
TermCombine(toks, acc, op, f) ==
    IF f.ok THEN TermContinue(toks, Joined(acc, op, f), f.pos) ELSE ParseErr
ParseTermLoop(toks, acc, op, i) == TermCombine(toks, acc, op, ParseFactor(toks, i))
ParseTerm(toks, i) == ParseTermLoop(toks, Other("none"), "", i)

\* the operand f under the sign op
Signed(op, f) == IF f.ok THEN Parsed(UnaryOp(op, f.node), f.pos) ELSE ParseErr

\* ParseFactor with a sign binding tighter than '**': -a**b read as (-a)**b
ParseFactor_sign_first(toks, i) ==
    IF IsOp(toks, i, {"+", "-"}) THEN
        LET f == ParseFactor(toks, i + 1)
            op == SignOp(toks[i].str)
        IN  IF ~f.ok THEN ParseErr
            ELSE IF f.node.type = "BinOp" /\ f.node.op = "Pow"
                THEN Parsed(BinOp(UnaryOp(op, f.node.left), "Pow", f.node.right), f.pos)
            ELSE Parsed(UnaryOp(op, f.node), f.pos)
    ELSE ParsePower(toks, i)

\* factor: ('+' | '-') factor | power
ParseFactor(toks, i) ==
    IF IsOp(toks, i, {"+", "-"}) THEN Signed(SignOp(toks[i].str), ParseFactor(toks, i + 1))
    ELSE ParsePower(toks, i)

\* power: primary '**' factor | primary
Raise(base, f) == IF f.ok THEN Parsed(BinOp(base, "Pow", f.node), f.pos) ELSE ParseErr
PowerOf(toks, b) ==
    IF ~b.ok THEN ParseErr
    ELSE IF IsOp(toks, b.pos, {"**"}) THEN Raise(b.node, ParseFactor(toks, b.pos + 1))
    ELSE b
ParsePower(toks, i) == PowerOf(toks, ParsePrimary(toks, i))

\* primary: primary '.' NAME | primary '(' [arguments] ')' | atom
TrailersOf(toks, node, a) == IF a.ok THEN ParseTrailers(toks, node, a.pos) ELSE ParseErr
ParseTrailers(toks, node, i) ==
    IF IsOp(toks, i, {"."}) THEN
        IF toks[i + 1].type = "NAME" THEN ParseTrailers(toks, Other("Attribute"), i + 2)
        ELSE ParseErr
    ELSE IF IsOp(toks, i, {"("}) THEN TrailersOf(toks, Other("Call"), ParseCallArgs(toks, i + 1))
    ELSE Parsed(node, i)
AtomTrailers(toks, a) == IF a.ok THEN ParseTrailers(toks, a.node, a.pos) ELSE ParseErr
ParsePrimary(toks, i) == AtomTrailers(toks, ParseAtom(toks, i))

\* the expression e must be followed by ')'
Closed(toks, e) ==
    IF e.ok /\ IsOp(toks, e.pos, {")"}) THEN Parsed(e.node, e.pos + 1) ELSE ParseErr

\* the arguments of a call up to its ')': none, an expression, '*' expression
\* or '**' expression (the alphabet has no comma)
ParseCallArgs(toks, i) ==
    IF IsOp(toks, i, {")"}) THEN Parsed(Other("Call"), i + 1)
    ELSE Closed(toks, ParseSum(toks, IF IsOp(toks, i, {"*", "**"}) THEN i + 1 ELSE i))

\* atom: NAME | NUMBER | '...' | '(' ')' | '(' expression ')'
ParseAtom(toks, i) ==
    IF toks[i].type = "NUMBER" THEN Parsed(Constant(toks[i].val), i + 1)
    ELSE IF toks[i].type = "NAME" THEN Parsed(Other("Name"), i + 1)
    ELSE IF toks[i].type = "ELLIPSIS" THEN Parsed(Other("Ellipsis"), i + 1)
    ELSE IF IsOp(toks, i, {"("}) THEN
        IF IsOp(toks, i + 1, {")"}) THEN Parsed(Other("Tuple"), i + 2)
        ELSE Closed(toks, ParseSum(toks, i + 1))
    ELSE ParseErr

Expression(body) == [type |-> "Expression", body |-> body]

\* the whole token sequence must be one expression
Whole(toks, e) ==
    IF e.ok /\ toks[e.pos].type = "END" THEN Parsed(Expression(e.node), e.pos) ELSE ParseErr
ParseTokens(tk) == IF tk.ok THEN Whole(tk.toks, ParseSum(tk.toks, 1)) ELSE ParseErr

\* ast.parse(expr, mode="eval"): the Expression tree, or SyntaxError (ok FALSE).
\* Leading whitespace is an unexpected indent.
ast_parse(expr) ==
    IF At(expr, 1) \in Whitespace THEN ParseErr ELSE ParseTokens(Tokenize(expr, 1, <<>>))

\* ------------------------------------------------------------------ _eval_ast
\* The log of an evaluation, in order:
\*   "const"  a number node returned its value l            (line 30)
\*   "unary"  a unary operator function was called on l     (line 38)
\*   "reach"  both operands l, r of a BinOp are evaluated   (line 44)
\*   "apply"  op_func(l, r) was called                      (line 50)
\*   "value"  that call returned the value l                (line 50)
Ev(e, op, l, r) == [e |-> e, op |-> op, l |-> l, r |-> r]

\* An evaluation ends with a value (exc = "none") or an exception; src names
\* the line that raised: "guard" (47), "cap" (49), "op" (the operator
\* function, 38 or 50), "node" (54), "parse" (63).
Value(v, log) == [exc |-> "none", src |-> "", val |-> v, log |-> log]
Raised(e, src, log) == [exc |-> e, src |-> src, val |-> NoVal, log |-> log]

DivOps == {"Div", "FloorDiv", "Mod"}
\* the exponent cap of line 48
MaxExponent == 1000

\* eval_binop with the zero-divisor check of line 46 leaving out operator.mod
eval_binop_mod_unchecked(op, left, right, log0) ==
    LET log == Append(log0, Ev("reach", op, left, right))
    IN  IF op \in DivOps /\ ~KnowsMagnitude(right) THEN Raised("untracked", "", log)
        ELSE IF op \in {"Div", "FloorDiv"} /\ IsZero(right)
            THEN Raised("ZeroDivisionError", "guard", log)
        ELSE IF op = "Pow" /\ ~KnowsMagnitude(right) THEN Raised("untracked", "", log)
        ELSE IF op = "Pow" /\ AbsExceeds(right, MaxExponent) THEN Raised("ValueError", "cap", log)
        ELSE LET r == ALLOWED_BIN_OPS(op, left, right)
                 log2 == Append(log, Ev("apply", op, left, right))
             IN  IF r.exc = "none" THEN Value(r.val, Append(log2, Ev("value", op, r.val, NoVal)))
                 ELSE Raised(r.exc, IF r.exc = "untracked" THEN "" ELSE "op", log2)

\* eval_binop with the cap of line 48 written abs(right) >= 1000
eval_binop_cap_inclusive(op, left, right, log0) ==
    LET log == Append(log0, Ev("reach", op, left, right))
    IN  IF op \in DivOps /\ ~KnowsMagnitude(right) THEN Raised("untracked", "", log)
        ELSE IF op \in DivOps /\ IsZero(right) THEN Raised("ZeroDivisionError", "guard", log)
        ELSE IF op = "Pow" /\ ~KnowsMagnitude(right) THEN Raised("untracked", "", log)
        ELSE IF op = "Pow" /\ AbsExceeds(right, MaxExponent - 1)
            THEN Raised("ValueError", "cap", log)
        ELSE LET r == ALLOWED_BIN_OPS(op, left, right)
                 log2 == Append(log, Ev("apply", op, left, right))
             IN  IF r.exc = "none" THEN Value(r.val, Append(log2, Ev("value", op, r.val, NoVal)))
                 ELSE Raised(r.exc, IF r.exc = "untracked" THEN "" ELSE "op", log2)

\* lines 44-50, once left and right are evaluated
eval_binop(op, left, right, log0) ==
    LET log == Append(log0, Ev("reach", op, left, right))
    IN  IF op \in DivOps /\ ~KnowsMagnitude(right) THEN Raised("untracked", "", log)
        ELSE IF op \in DivOps /\ IsZero(right) THEN Raised("ZeroDivisionError", "guard", log)
        ELSE IF op = "Pow" /\ ~KnowsMagnitude(right) THEN Raised("untracked", "", log)
        ELSE IF op = "Pow" /\ AbsExceeds(right, MaxExponent) THEN Raised("ValueError", "cap", log)
        ELSE LET r == ALLOWED_BIN_OPS(op, left, right)
                 log2 == Append(log, Ev("apply", op, left, right))
             IN  IF r.exc = "none" THEN Value(r.val, Append(log2, Ev("value", op, r.val, NoVal)))
                 ELSE Raised(r.exc, IF r.exc = "untracked" THEN "" ELSE "op", log2)

RECURSIVE eval_ast(_)
\* eval_ast evaluating the right operand of a BinOp before the left one
eval_ast_right_first(node) ==
    IF node.type = "Expression" THEN eval_ast(node.body)
    ELSE IF node.type = "Constant" /\ node.value.tag \in {"int", "float"} THEN
        Value(node.value, <<Ev("const", "", node.value, NoVal)>>)
    ELSE IF node.type = "UnaryOp" /\ node.op \in UnaryOps THEN
        LET x == eval_ast(node.operand)
        IN  IF x.exc # "none" THEN x
            ELSE Value(ALLOWED_UNARY_OPS(node.op, x.val).val,
                       Append(x.log, Ev("unary", node.op, x.val, NoVal)))
    ELSE IF node.type = "BinOp" /\ node.op \in BinOps THEN
        LET right == eval_ast(node.right)
        IN  IF right.exc # "none" THEN right
            ELSE LET left == eval_ast(node.left)
                 IN  IF left.exc # "none" THEN [left EXCEPT !.log = right.log \o left.log]
                     ELSE eval_binop(node.op, left.val, right.val, right.log \o left.log)
    ELSE Raised("ValueError", "node", <<>>)

eval_ast(node) ==
    IF node.type = "Expression" THEN eval_ast(node.body)
    ELSE IF node.type = "Constant" /\ node.value.tag \in {"int", "float"} THEN
        Value(node.value, <<Ev("const", "", node.value, NoVal)>>)
    ELSE IF node.type = "UnaryOp" /\ node.op \in UnaryOps THEN
        LET x == eval_ast(node.operand)
        IN  IF x.exc # "none" THEN x
            ELSE Value(ALLOWED_UNARY_OPS(node.op, x.val).val,
                       Append(x.log, Ev("unary", node.op, x.val, NoVal)))
    ELSE IF node.type = "BinOp" /\ node.op \in BinOps THEN
        LET left == eval_ast(node.left)
        IN  IF left.exc # "none" THEN left
            ELSE LET right == eval_ast(node.right)
                 IN  IF right.exc # "none" THEN [right EXCEPT !.log = left.log \o right.log]
                     ELSE eval_binop(node.op, left.val, right.val, left.log \o right.log)
    ELSE Raised("ValueError", "node", <<>>)

\* replace(old, new) on a text of single characters
Replace(text, old, new) == [i \in 1..Len(text) |-> IF text[i] = old THEN new ELSE text[i]]

\* lines 60-64: SyntaxError becomes ValueError, a tree is evaluated
eval_parsed(tree) ==
    IF ~tree.ok THEN Raised("ValueError", "parse", <<>>) ELSE eval_ast(tree.node)

safe_eval(expr) == eval_parsed(ast_parse(Replace(Replace(expr, "×", "*"), "÷", "/")))

\* ------------------------------------------------------------- the display
\* What the result label shows: a text, or (kind "str") the str() of a float
\* or complex value whose digits the model does not spell out, or (kind
\* "untracked") the outcome of an evaluation the model does not follow.
Text(t) == [kind |-> "text", text |-> t, of |-> NoVal]
StrOf(v) == [kind |-> "str", text |-> <<>>, of |-> v]
UntrackedDisplay == [kind |-> "untracked", text |-> <<>>, of |-> NoVal]

ZERO_TEXT == <<"0">>
ERROR_TEXT == <<"E", "r", "r", "o", "r">>
DIV_ERROR_TEXT == <<"E", "r", "r", "o", "r", ":", " ", "÷", " ", "b", "y", " ", "0">>

RECURSIVE NatDigits(_)
NatDigits(n) ==
    IF n < 10 THEN <<DigitSeq[n + 1]>>
    ELSE Append(NatDigits(n \div 10), DigitSeq[(n % 10) + 1])
\* str(n) of an int
IntStr(n) == IF n < 0 THEN <<"-">> \o NatDigits(-n) ELSE NatDigits(n)

\* lines 175-177: an integral float is shown as an int, then str(value).
\* str() of an int beyond Lim is not followed (it raises ValueError past
\* the interpreter's digit limit).
format_value(v) ==
    IF v.mag = "exact" /\ v.den = 1 THEN Text(IntStr(v.num))
    ELSE IF v.mag \in {"exact", "approx"} THEN StrOf(v)
    ELSE UntrackedDisplay

\* str.strip() for the whitespace of the alphabet
RECURSIVE LStrip(_), RStrip(_)
LStrip(t) == IF t # <<>> /\ Head(t) \in Whitespace THEN LStrip(Tail(t)) ELSE t
RStrip(t) == IF t # <<>> /\ t[Len(t)] \in Whitespace THEN RStrip(SubSeq(t, 1, Len(t) - 1)) ELSE t
Strip(t) == RStrip(LStrip(t))

NoOutcome == [exc |-> "unset", src |-> "", val |-> NoVal, log |-> <<>>]

\* show with the ZeroDivisionError handler catching every exception
show_catch_all(out) ==
    CASE out.exc = "none" -> format_value(out.val)
      [] out.exc = "untracked" -> UntrackedDisplay
      [] OTHER -> Text(DIV_ERROR_TEXT)

\* lines 172-181: what the try statement sets the result to
show(out) ==
    CASE out.exc = "none" -> format_value(out.val)
      [] out.exc = "ZeroDivisionError" -> Text(DIV_ERROR_TEXT)
      [] out.exc = "untracked" -> UntrackedDisplay
      [] OTHER -> Text(ERROR_TEXT)

\* the outcome of safe_eval with the text the try statement shows for it
shown(out) == [result |-> show(out), out |-> out]

\* calculate_result without the strip() of line 168
calculate_result_unstripped(expression_text) ==
    IF expression_text = <<>> THEN [result |-> Text(ZERO_TEXT), out |-> NoOutcome]
    ELSE shown(safe_eval(expression_text))

\* calculate, lines 167-181: the text it sets the result to and what its call
\* of safe_eval did (NoOutcome when it made none)
calculate_result(expression_text) ==
    IF Strip(expression_text) = <<>> THEN [result |-> Text(ZERO_TEXT), out |-> NoOutcome]
    ELSE shown(safe_eval(Strip(expression_text)))

\* ------------------------------------------------------------ the Calculator
VARIABLES
    expression,   \* self.expression
    result,       \* self.result
    last,         \* the handler that ran last
    outcome,      \* what safe_eval did in that handler, NoOutcome if not called
    calculated,   \* a calculate has run since the start or the last clear
    calcExpr      \* the expression text at the most recent such calculate

vars == <<expression, result, last, outcome, calculated, calcExpr>>

\* the keys and buttons the model presses (of those bound in _build_ui, _bind_keys)
Keys == {<<"1">>, <<"0">>, <<"/">>, <<"*", "*">>}

\* __init__, lines 73-74
Init ==
    /\ expression = <<>>
    /\ result = Text(ZERO_TEXT)
    /\ last = "init"
    /\ outcome = NoOutcome
    /\ calculated = FALSE
    /\ calcExpr = <<>>

\* insert that also refreshes the result from the new expression
insert_refreshing(s) ==
    /\ Len(expression) + Len(s) <= MaxLen
    /\ expression' = expression \o s
    /\ result' = calculate_result(expression \o s).result
    /\ last' = "insert"
    /\ outcome' = NoOutcome
    /\ UNCHANGED <<calculated, calcExpr>>

insert(s) ==
    /\ Len(expression) + Len(s) <= MaxLen
    /\ expression' = expression \o s
    /\ last' = "insert"
    /\ outcome' = NoOutcome
    /\ UNCHANGED <<result, calculated, calcExpr>>

EndsWithPow(expr) == Len(expr) >= 2 /\ SubSeq(expr, Len(expr) - 1, Len(expr)) = <<"*", "*">>

backspace ==
    /\ expression' = IF EndsWithPow(expression) THEN SubSeq(expression, 1, Len(expression) - 2)
                     ELSE IF expression # <<>> THEN SubSeq(expression, 1, Len(expression) - 1)
                     ELSE <<>>
    /\ last' = "backspace"
    /\ outcome' = NoOutcome
    /\ UNCHANGED <<result, calculated, calcExpr>>

clear ==
    /\ expression' = <<>>
    /\ result' = Text(ZERO_TEXT)
    /\ last' = "clear"
    /\ outcome' = NoOutcome
    /\ calculated' = FALSE
    /\ calcExpr' = <<>>

\* lines 170-181: the display is set to what the try statement arrived at
set_result(c) == result' = c.result /\ outcome' = c.out

\* calculate with line 183 active: the expression becomes the result text
calculate_replacing_expression ==
    /\ set_result(calculate_result(expression))
    /\ last' = "calculate"
    /\ calculated' = TRUE
    /\ calcExpr' = expression
    /\ expression' = result'.text

calculate ==
    /\ set_result(calculate_result(expression))
    /\ last' = "calculate"
    /\ calculated' = TRUE
    /\ calcExpr' = expression
    /\ UNCHANGED expression

Next ==
    \/ \E s \in Keys : insert(s)
    \/ backspace
    \/ clear
    \/ calculate

Spec == Init /\ [][Next]_vars

\* ------------------------------------------- calculate on a given expression
\* The expression entry is an editable field bound to self.expression (line
\* 84), so any text can stand in it when calculate runs.  SpecEval starts
\* with such a text and runs calculate on it.
EvalLen == 4
EvalChars == {"0", "1", ".", "e", "/", "*", "-", "(", ")", " "}
Strings(chars, n) == UNION {[1..k -> chars] : k \in 0..n}

Paren(t) == <<"(">> \o t \o <<")">>
POW == <<"*", "*">>
Cat3(a, b, c) == a \o b \o c
Cat5(a, b, c, d, e) == a \o b \o c \o d \o e

\* base ** exponent, exponents around the cap and around zero
PowBases == {<<"0">>, <<"1">>, <<"2">>, Paren(<<"-", "1">>), <<"1", ".", "0">>, <<".", "5">>}
ExponentSizes == {1, MaxExponent - 1, MaxExponent, MaxExponent + 1}
PowExps ==
    {IntStr(n) : n \in ExponentSizes} \cup {<<"-">> \o IntStr(n) : n \in ExponentSizes}
    \cup {<<".", "5">>, <<"-", ".", "5">>, IntStr(MaxExponent) \o <<".", "5">>, <<"1", "e", "3">>}
PowInputs == {Cat3(b, POW, e) : b \in PowBases, e \in PowExps}

\* dividend (/ | // | %) divisor, zero and nonzero divisors
DivOpStrs == {<<"/">>, <<"/", "/">>, <<"%">>}
Dividends == {<<"1">>, <<"0">>, <<"1", ".", "5">>, Paren(<<"-", "1">>)}
Divisors == {<<"0">>, <<"0", ".", "0">>, <<"-", "0">>, Paren(<<"1", "-", "1">>), <<"0", "e", "1">>,
             <<"1">>, <<".", "5">>, <<"-", "2">>}
DivInputs == {Cat3(l, op, r) : l \in Dividends, op \in DivOpStrs, r \in Divisors}

\* literals and names spelt with "e", "x" and "_"
LiteralInputs == {<<"1", "e", "1">>, <<"0", "x", "1", "0">>, <<"1", "_", "0">>, <<"0", "x", "1", "e">>,
                  <<"x">>, <<"1", "x">>, <<"_", "1">>, <<"1", "_">>, <<"1", "/", "0", "+", "e">>,
                  <<"e", "+", "1", "/", "0">>, <<"6", "÷", "2", "×", "3">>, <<"2", "×", "×", "3">>}

\* the grouping cases, over operands 0..MaxOperand: an expression text and
\* the tree the grammar gives it
Operands == 0..MaxOperand
N(a) == IntStr(a)
K(a) == Constant(IntV(a))
LooseOps == {"Add", "Sub"}
TightOps == {"Mult", "Div", "FloorDiv", "Mod"}
OpStr(op) ==
    CASE op = "Add" -> <<"+">>
      [] op = "Sub" -> <<"-">>
      [] op = "Mult" -> <<"*">>
      [] op = "Div" -> <<"/">>
      [] op = "FloorDiv" -> <<"/", "/">>
      [] op = "Mod" -> <<"%">>
      [] op = "Pow" -> POW
\* a o1 b o2 c: o2 takes b first only when it binds tighter than o1
TwoOpTree(a, o1, b, o2, c) ==
    IF o1 \in LooseOps /\ o2 \in TightOps
    THEN BinOp(K(a), o1, BinOp(K(b), o2, K(c)))
    ELSE BinOp(BinOp(K(a), o1, K(b)), o2, K(c))
Case(text, tree) == [text |-> text, tree |-> tree]
GroupCases ==
    {Case(Cat5(N(a), OpStr(o1), N(b), OpStr(o2), N(c)), TwoOpTree(a, o1, b, o2, c)) :
        a \in Operands, b \in Operands, c \in Operands,
        o1 \in LooseOps \cup TightOps, o2 \in LooseOps \cup TightOps}
    \cup {Case(Cat3(Paren(Cat3(N(a), <<"+">>, N(b))), <<"*">>, N(c)),
               BinOp(BinOp(K(a), "Add", K(b)), "Mult", K(c))) :
              a \in Operands, b \in Operands, c \in Operands}
    \cup {Case(Cat3(N(a), <<"*">>, Paren(Cat3(N(b), <<"+">>, N(c)))),
               BinOp(K(a), "Mult", BinOp(K(b), "Add", K(c)))) :
              a \in Operands, b \in Operands, c \in Operands}
    \cup {Case(Cat5(N(a), POW, N(b), POW, N(c)),
               BinOp(K(a), "Pow", BinOp(K(b), "Pow", K(c)))) :
              a \in Operands, b \in Operands, c \in Operands}
    \cup {Case(Cat3(Paren(Cat3(N(a), POW, N(b))), POW, N(c)),
               BinOp(BinOp(K(a), "Pow", K(b)), "Pow", K(c))) :
              a \in Operands, b \in Operands, c \in Operands}
    \cup {Case(Cat3(<<"-">> \o N(a), POW, N(b)),
               UnaryOp("USub", BinOp(K(a), "Pow", K(b)))) : a \in Operands, b \in Operands}
    \cup {Case(Cat3(Paren(<<"-">> \o N(a)), POW, N(b)),
               BinOp(UnaryOp("USub", K(a)), "Pow", K(b))) : a \in Operands, b \in Operands}
    \cup {Case(Cat3(N(a), POW, <<"-">> \o N(b)),
               BinOp(K(a), "Pow", UnaryOp("USub", K(b)))) : a \in Operands, b \in Operands}
GroupInputs == {c.text : c \in GroupCases}

\* two operands of which one or both fail
ZdeOperand == Paren(<<"1", "/", "0">>)
CapOperand == Paren(Cat3(<<"2">>, POW, IntStr(MaxExponent + 1)))
NameOperand == <<"e">>
FineOperand == <<"1">>
OrderOperands == {ZdeOperand, CapOperand, NameOperand, FineOperand}
OrderOpStrs == {<<"+">>, <<"-">>, <<"*">>, <<"/">>, <<"/", "/">>, <<"%">>, POW}
OrderInputs == {Cat3(l, op, r) : l \in OrderOperands, op \in OrderOpStrs, r \in OrderOperands}

EvalInputs ==
    Strings(EvalChars, EvalLen) \cup PowInputs \cup DivInputs \cup LiteralInputs
    \cup GroupInputs \cup OrderInputs

InitEval ==
    /\ expression \in EvalInputs
    /\ result = Text(ZERO_TEXT)
    /\ last = "init"
    /\ outcome = NoOutcome
    /\ calculated = FALSE
    /\ calcExpr = <<>>

SpecEval == InitEval /\ [][calculate]_vars

\* ---------------------------------------------------------------- properties
Done == last = "calculate"
Log == outcome.log
Failed(out) == out.exc \in {"ZeroDivisionError", "ValueError", "OverflowError"}
ZeroNumber(v) == v.tag \in {"int", "float"} /\ v.mag = "exact" /\ v.num = 0
NegativeNumber(v) == v.tag \in {"int", "float"} /\ v.mag \in {"exact", "big", "approx"} /\ v.num < 0
\* a /, // or % whose operands are evaluated and whose right operand is zero
ZeroDivisorReached(ev) == ev.e = "reach" /\ ev.op \in {"Div", "FloorDiv", "Mod"} /\ ZeroNumber(ev.r)
ZeroDivisorApplied(ev) == ev.e = "apply" /\ ev.op \in {"Div", "FloorDiv", "Mod"} /\ ZeroNumber(ev.r)

\* C1: when a /, // or % is reached with both operands evaluated and a zero
\* right operand, calculate shows "Error: ÷ by 0" and the operator function is
\* never called with that zero divisor.
C1_ZeroDivisorShown ==
    Done => \A i \in DOMAIN Log :
                ZeroDivisorReached(Log[i]) =>
                    /\ result = Text(DIV_ERROR_TEXT)
                    /\ \A j \in DOMAIN Log : ~ZeroDivisorApplied(Log[j])

C1_Witness ==
    /\ Done
    /\ result = Text(DIV_ERROR_TEXT)
    /\ \E i \in DOMAIN Log :
          ZeroDivisorReached(Log[i]) /\ Log[i].op = "Mod" /\ Log[i].r.tag = "float"

\* the evaluation ended at the zero-divisor check of a /, // or %
EndedAtZeroDivisorCheck ==
    /\ outcome.exc = "ZeroDivisionError"
    /\ Log # <<>>
    /\ ZeroDivisorReached(Log[Len(Log)])
\* the evaluation ended in the ** operator raising ZeroDivisionError: a zero
\* base with a negative exponent
EndedInZeroPow ==
    /\ outcome.exc = "ZeroDivisionError"
    /\ Log # <<>>
    /\ LET ev == Log[Len(Log)]
       IN  ev.e = "apply" /\ ev.op = "Pow" /\ ZeroNumber(ev.l) /\ NegativeNumber(ev.r)

\* C2 as stated: "Error: ÷ by 0" is shown only when the evaluation failed at
\* the zero-divisor check of a /, // or %; every other failed evaluation, a
\* failure raised by ** itself included, shows "Error".
C2_Original ==
    Done =>
        /\ result = Text(DIV_ERROR_TEXT) => EndedAtZeroDivisorCheck
        /\ (Failed(outcome) /\ ~EndedAtZeroDivisorCheck) => result = Text(ERROR_TEXT)

\* C2 amended: "Error: ÷ by 0" is shown only when the evaluation failed at the
\* zero-divisor check of a /, // or %, or when ** itself raised
\* ZeroDivisionError (a zero base raised to a negative power); every other
\* failed evaluation shows "Error".
C2_DivErrorOnlyForZeroDivision ==
    Done =>
        /\ result = Text(DIV_ERROR_TEXT) => (EndedAtZeroDivisorCheck \/ EndedInZeroPow)
        /\ (Failed(outcome) /\ ~EndedAtZeroDivisorCheck /\ ~EndedInZeroPow)
               => result = Text(ERROR_TEXT)

C2_Witness ==
    /\ Done
    /\ expression = <<"0", "*", "*", "-", "1">>
    /\ result = Text(DIV_ERROR_TEXT)
    /\ EndedInZeroPow

\* the magnitude of a number the model knows exceeds 1000
Above1000(v) == v.mag = "big" \/ (v.mag \in {"exact", "approx"} /\ Abs(v.num) > 1000 * v.den)
KnownNumber(v) == v.tag \in {"int", "float"} /\ v.mag \in {"exact", "big", "approx"}
PowReached(ev) == ev.e = "reach" /\ ev.op = "Pow" /\ KnownNumber(ev.r)

\* C3: a ** whose operands are evaluated fails, before the operator function
\* is called, with the display "Error" when |right| > 1000; when
\* |right| <= 1000 the cap check lets it through to the operator function.
C3_ExponentCap ==
    Done => \A i \in DOMAIN Log :
                PowReached(Log[i]) =>
                    IF Above1000(Log[i].r)
                    THEN /\ i = Len(Log)
                         /\ outcome.exc = "ValueError"
                         /\ result = Text(ERROR_TEXT)
                    ELSE /\ i < Len(Log)
                         /\ Log[i + 1] = Ev("apply", "Pow", Log[i].l, Log[i].r)

C3_Witness ==
    /\ Done
    /\ expression = <<"1", "*", "*", "1", "0", "0", "0">>
    /\ result = Text(<<"1">>)
    /\ \E i \in DOMAIN Log : PowReached(Log[i]) /\ Log[i].r = IntV(1000)

\* the characters the specification accepts
AcceptedChars ==
    Digits \cup Whitespace \cup {".", "+", "-", "*", "/", "(", ")", "%", "×", "÷"}

\* C4 as stated: an expression with a character outside the accepted set
\* shows "Error".
C4_ForeignCharacterIsError ==
    (Done /\ \E i \in DOMAIN expression : expression[i] \notin AcceptedChars)
        => result = Text(ERROR_TEXT)

AllWhitespace(t) == \A i \in DOMAIN t : t[i] \in Whitespace

\* C5: on an empty or all-whitespace expression calculate shows "0" and does
\* not call safe_eval.
C5_EmptyShowsZero ==
    (Done /\ AllWhitespace(expression)) => (result = Text(ZERO_TEXT) /\ outcome = NoOutcome)

C5_Witness ==
    /\ Done
    /\ expression = <<" ", " ">>
    /\ result = Text(ZERO_TEXT)
    /\ outcome = NoOutcome

\* C6: an expression is grouped by the grammar: calculate shows for each text
\* of GroupCases what the evaluation of its tree gives.
C6_Grouping ==
    Done => \A c \in GroupCases :
                expression = c.text => result = show(eval_ast(c.tree))

C6_Witness ==
    /\ Done
    /\ expression = <<"-", "2", "*", "*", "2">>
    /\ result = Text(<<"-", "4">>)

\* the tag the table gives the value of op on operands tagged lt and rt
TableTag(op, l, r) ==
    IF op = "Div" THEN "float"
    ELSE IF op = "Pow" THEN
        IF l.tag = "int" /\ r.tag = "int" /\ ~NegativeNumber(r) THEN "int" ELSE "float"
    ELSE IF l.tag = "int" /\ r.tag = "int" THEN "int" ELSE "float"

\* C7 as stated: the value of every successful binary operation is tagged
\* integer or floating as the table says.
C7_ResultTags ==
    Done => \A i \in DOMAIN Log :
                (Log[i].e = "value" /\ Log[i].l.mag # "lost") =>
                    Log[i].l.tag = TableTag(Log[i].op, Log[i - 1].l, Log[i - 1].r)

\* what each operand of OrderInputs shows when it fails
FailureText(operand) ==
    IF operand = ZdeOperand THEN Text(DIV_ERROR_TEXT) ELSE Text(ERROR_TEXT)

\* C8: of two operands that fail, the left one's failure is shown: the left
\* operand is evaluated first, the right one next, then the node's own check.
C8_FirstFailureShown ==
    Done => \A l \in OrderOperands, op \in OrderOpStrs, r \in OrderOperands :
                expression = Cat3(l, op, r) =>
                    IF l # FineOperand THEN result = FailureText(l)
                    ELSE IF r # FineOperand THEN result = FailureText(r)
                    ELSE outcome.exc = "none"

C8_Witness ==
    /\ Done
    /\ expression = Cat3(ZdeOperand, <<"+">>, CapOperand)
    /\ result = Text(DIV_ERROR_TEXT)

\* C9: calculate leaves the expression text as it was.
C9_CalculateKeepsExpression ==
    [][last' = "calculate" => expression' = expression]_vars

C9_Witness ==
    /\ Done
    /\ expression = <<"1", "/", "0">>
    /\ result = Text(DIV_ERROR_TEXT)

\* C10: the result shows "0" while no calculate has run since the start or the
\* last clear, and otherwise what calculate shows for the expression text of
\* the most recent calculate.
C10_ResultOfLastCalculate ==
    result = IF calculated THEN calculate_result(calcExpr).result ELSE Text(ZERO_TEXT)

C10_Witness ==
    /\ calculated
    /\ last = "insert"
    /\ result = Text(DIV_ERROR_TEXT)
    /\ calculate_result(expression).result # result

====
